---- MODULE Spec2Model ----
(***************************************************************************)
(* A model of server.py, the Google Flights MCP server: the three tools    *)
(* get_flights_on_date, get_round_trip_flights, find_all_flights_in_range  *)
(* and the helper map_seat_type.  The fast_flights library (create_query,  *)
(* get_flights) is the external provider: one call of it either raises an  *)
(* exception of some kind or returns a result.                             *)
(***************************************************************************)
EXTENDS Integers, Sequences, FiniteSets, TLC

VARIABLES
    pc,                   \* position of the running tool call
    start_date_str,       \* arguments of find_all_flights_in_range
    end_date_str,
    min_stay_days,
    max_stay_days,
    return_cheapest_only,
    date_pairs_to_check,  \* local: the expanded (depart, return) pairs
    count,                \* local: 1-based loop counter of line 272
    results_data,         \* local: list of per-pair result entries
    error_messages,       \* local: list of deduplicated error strings
    report,               \* the value the tool returns
    calls,                \* history: the queries handed to the provider
    outcomes,             \* history: what the provider answered, per call
    tool,                 \* single-query tools: which tool is running
    tool_dates,           \* single-query tools: the date strings given
    seat_type,            \* map_seat_type: the argument
    seat,                 \* map_seat_type: the value returned
    frames,               \* concurrent invocations: each one's arguments and locals
    lists,                \* concurrent invocations: the result and error lists
    in_flight             \* concurrent invocations: provider calls not yet answered

vars == << pc, start_date_str, end_date_str, min_stay_days, max_stay_days,
           return_cheapest_only, date_pairs_to_check, count, results_data,
           error_messages, report, calls, outcomes, tool, tool_dates,
           seat_type, seat, frames, lists, in_flight >>

sweepVars == << pc, start_date_str, end_date_str, min_stay_days, max_stay_days,
                return_cheapest_only, date_pairs_to_check, count, results_data,
                error_messages, report, calls, outcomes >>

toolVars == << tool, tool_dates >>

seatVars == << seat_type, seat >>

concVars == << frames, lists, in_flight >>

\* An optional value: Python's None, or a value that is present.
None == [some |-> FALSE, val |-> 0]

Some(v) == [some |-> TRUE, val |-> v]

----------------------------------------------------------------------------
(* Bounds of the model.                                                    *)

\* Date windows span up to MaxSpan + 1 days.
MaxSpan == 3

\* A sweep is explored on windows that expand to at most MaxPairs pairs.
MaxPairs == 3

\* Seat-type inputs carry at most MaxUpper upper-case letters.
MaxUpper == 2

\* Invocations of find_all_flights_in_range that run side by side.
NumInvocations == 2

----------------------------------------------------------------------------
(* datetime: dates, strptime("%Y-%m-%d"), strftime("%Y-%m-%d"), timedelta. *)

\* A date string is modelled by whether it has the shape digits-digits-digits
\* and, if so, by the three numbers it spells and by whether month and day
\* are written with two digits ("2026-03-01") or not ("2026-3-1").
DateText(y, m, d) == [shaped |-> TRUE, padded |-> TRUE, y |-> y, m |-> m, d |-> d]

UnpaddedText(y, m, d) == [shaped |-> TRUE, padded |-> FALSE, y |-> y, m |-> m, d |-> d]

GarbageText == [shaped |-> FALSE, padded |-> FALSE, y |-> 0, m |-> 0, d |-> 0]

Date(y, m, d) == [year |-> y, month |-> m, day |-> d]

IsLeap(y) == (y % 4 = 0) /\ ((y % 100 # 0) \/ (y % 400 = 0))

DaysInMonth(y, m) ==
    IF m = 2 THEN (IF IsLeap(y) THEN 29 ELSE 28)
    ELSE IF m \in {4, 6, 9, 11} THEN 30 ELSE 31

RECURSIVE DaysBeforeMonth(_, _)
DaysBeforeMonth(y, m) ==
    IF m <= 1 THEN 0 ELSE DaysBeforeMonth(y, m - 1) + DaysInMonth(y, m - 1)

\* date.toordinal(): days since 0001-01-01, that day being 1.
ToOrdinal(dt) ==
    LET y1 == dt.year - 1
    IN  y1 * 365 + (y1 \div 4) - (y1 \div 100) + (y1 \div 400)
          + DaysBeforeMonth(dt.year, dt.month) + dt.day

\* datetime.datetime.strptime(s, "%Y-%m-%d"): raises ValueError unless the
\* string has the shape and spells a day of the calendar.
StrptimeRaises(s) ==
    \/ ~s.shaped
    \/ s.y < 1 \/ s.y > 9999
    \/ s.m < 1 \/ s.m > 12
    \/ s.d < 1 \/ s.d > DaysInMonth(s.y, s.m)

Strptime(s) == Date(s.y, s.m, s.d)

\* date.strftime("%Y-%m-%d"): always two digits for month and day
Strftime(dt) == DateText(dt.year, dt.month, dt.day)

\* date + datetime.timedelta(days=1)
AddOneDay(dt) ==
    IF dt.day < DaysInMonth(dt.year, dt.month)
    THEN Date(dt.year, dt.month, dt.day + 1)
    ELSE IF dt.month < 12 THEN Date(dt.year, dt.month + 1, 1)
    ELSE Date(dt.year + 1, 1, 1)

\* a <= b, a > b on dates
DateLE(a, b) == ToOrdinal(a) <= ToOrdinal(b)

\* (b - a).days
DaysBetween(a, b) == ToOrdinal(b) - ToOrdinal(a)

----------------------------------------------------------------------------
(* find_all_flights_in_range, lines 248-267: the date list and the pairs.  *)

\* while current_date <= end_date: append; current_date += 1 day
RECURSIVE DateListFrom(_, _)
DateListFrom(current_date, end_date) ==
    IF DateLE(current_date, end_date)
    THEN << current_date >> \o DateListFrom(AddOneDay(current_date), end_date)
    ELSE << >>

DateList(start_date, end_date) == DateListFrom(start_date, end_date)

\* lines 260-266
ValidStay(depart_date, return_date, minStay, maxStay) ==
    LET stay_duration == DaysBetween(depart_date, return_date)
    IN  /\ ~(minStay # None /\ stay_duration < minStay.val)
        /\ ~(maxStay # None /\ stay_duration > maxStay.val)

\* for return_date in date_list[i:], j walking the slice
RECURSIVE InnerLoop(_, _, _, _, _)
InnerLoop(date_list, i, j, minStay, maxStay) ==
    IF j > Len(date_list) THEN << >>
    ELSE (IF ValidStay(date_list[i], date_list[j], minStay, maxStay)
          THEN << << date_list[i], date_list[j] >> >>
          ELSE << >>)
         \o InnerLoop(date_list, i, j + 1, minStay, maxStay)

SliceStartAfter(i) == i + 1

\* date_list[i:] starts at the departure date itself
SliceStart(i) == i

\* for i, depart_date in enumerate(date_list)
RECURSIVE OuterLoop(_, _, _, _)
OuterLoop(date_list, i, minStay, maxStay) ==
    IF i > Len(date_list) THEN << >>
    ELSE InnerLoop(date_list, i, SliceStart(i), minStay, maxStay)
         \o OuterLoop(date_list, i + 1, minStay, maxStay)

DatePairs(start_date, end_date, minStay, maxStay) ==
    OuterLoop(DateList(start_date, end_date), 1, minStay, maxStay)

----------------------------------------------------------------------------
(* The provider (fast_flights) and what the tools do with its answer.      *)

\* An exception: its class name, whether the class is ValueError or one of
\* its subclasses, and str(e).
Exc(name, isValueError, message) ==
    [name |-> name, value_error |-> isValueError, message |-> message]

NoExc == Exc("", FALSE, "")

RuntimeErr == Exc("RuntimeError", FALSE, "No flights found")

ValueErr == Exc("ValueError", TRUE, "unknown airport code")

JSONDecodeErr == Exc("JSONDecodeError", TRUE, "Expecting value")

\* What min() raises when it compares a None price.
TypeErr == Exc("TypeError", FALSE, "'<' not supported")

\* A flight offer as the provider returns it: its price (None when the price
\* is unknown) and the rest of the offer, told apart by its position.
Offer(price, pos) == [price |-> price, pos |-> pos]

OffersOf(prices) == [i \in 1..Len(prices) |-> Offer(prices[i], i)]

\* One answer of the provider: it raises, returns a falsy result (None or an
\* empty list), returns a truthy result that lists as empty, or returns
\* offers.
Raised(e) == [kind |-> "raise", exc |-> e, flights |-> << >>]

Falsy == [kind |-> "falsy", exc |-> NoExc, flights |-> << >>]

EmptyIter == [kind |-> "empty_iter", exc |-> NoExc, flights |-> << >>]

Returned(prices) == [kind |-> "offers", exc |-> NoExc, flights |-> OffersOf(prices)]

\* The price lists the provider is let to return.
PriceLists ==
    { << Some(1) >>, << None >>, << Some(2), Some(1), Some(1) >>,
      << None, None >>, << None, Some(1) >>, << Some(1), None >> }

SweepExcs == { RuntimeErr, ValueErr }

ToolExcs == { RuntimeErr, ValueErr, JSONDecodeErr }

ReturnOutcomes == { Falsy, EmptyIter } \cup { Returned(ps) : ps \in PriceLists }

\* a < b on prices: Python raises TypeError when either is None.
LessRaises(a, b) == a = None \/ b = None

\* min(flights_list, key=lambda f: f.price): walks the list keeping the first
\* offer that no later one is strictly below; any comparison may raise.
RECURSIVE MinScan(_, _, _)
MinScan(flights_list, i, best) ==
    IF i > Len(flights_list) THEN [raised |-> FALSE, value |-> best]
    ELSE IF LessRaises(flights_list[i].price, best.price)
         THEN [raised |-> TRUE, value |-> best]
    ELSE IF flights_list[i].price.val < best.price.val
         THEN MinScan(flights_list, i + 1, flights_list[i])
    ELSE MinScan(flights_list, i + 1, best)

MinByPrice(flights_list) == MinScan(flights_list, 2, flights_list[1])

\* flights_to_dict: the offer's fields copied into a dictionary.
FlightsToDict(f) == [price |-> f.price, segments |-> f.pos]

\* result is truthy and list(result) is non-empty (lines 288-290)
HasFlights(outcome) == outcome.kind = "offers" /\ outcome.flights # << >>

\* The dictionary appended to results_data (lines 291-303); the min() of
\* line 292 may raise instead.
PairEntryRaises(cheapestOnly, outcome) ==
    cheapestOnly /\ MinByPrice(outcome.flights).raised

PairEntry(pair, cheapestOnly, outcome) ==
    IF cheapestOnly
    THEN [departure_date |-> Strftime(pair[1]), return_date |-> Strftime(pair[2]),
          key |-> "cheapest_flight",
          flights |-> << FlightsToDict(MinByPrice(outcome.flights).value) >>]
    ELSE [departure_date |-> Strftime(pair[1]), return_date |-> Strftime(pair[2]),
          key |-> "flights",
          flights |-> [i \in 1..Len(outcome.flights) |-> FlightsToDict(outcome.flights[i])]]

ErrMsgKindOnly(pair, e) ==
    [departure |-> GarbageText, return |-> GarbageText, type |-> e.name]

\* err_msg of line 307
ErrMsg(pair, e) ==
    [departure |-> Strftime(pair[1]), return |-> Strftime(pair[2]), type |-> e.name]

InList(x, list) == \E i \in 1..Len(list) : list[i] = x

\* lines 308-309
AppendError(messages, err_msg) ==
    IF ~InList(err_msg, messages) THEN Append(messages, err_msg) ELSE messages

\* The two-leg query of lines 277-285, by its dates.
Query(pair) == [depart |-> Strftime(pair[1]), return |-> Strftime(pair[2])]

----------------------------------------------------------------------------
(* find_all_flights_in_range.                                              *)

\* json null for a list-valued field.
NullList == [some |-> FALSE, val |-> << >>]

\* lines 243 and 246
ValidationError(message) == [kind |-> "error", message |-> message, type |-> "ValueError"]

InvalidDateFormat == ValidationError("Invalid date format. Use YYYY-MM-DD.")

StartAfterEnd == ValidationError("Start date cannot be after end date.")

\* line 255
NoValidDates == [kind |-> "error", message |-> "No valid dates in the specified range.", type |-> ""]

NoReport == [kind |-> "none"]

\* lines 313-331
RangeReport(startStr, endStr, minStay, maxStay, cheapestOnly, results, errors) ==
    [kind |-> "report",
     search_parameters |->
        [start_date |-> startStr, end_date |-> endStr, min_stay_days |-> minStay,
         max_stay_days |-> maxStay, return_cheapest_only |-> cheapestOnly],
     results_key |-> IF cheapestOnly THEN "cheapest_option_per_date_pair"
                     ELSE "all_round_trip_options",
     results |-> results,
     errors_encountered |-> IF errors # << >> THEN Some(errors) ELSE NullList]

\* lines 239-243: either strptime raises ValueError
ParseFails(startStr, endStr) == StrptimeRaises(startStr) \/ StrptimeRaises(endStr)

RangeNeverInverted(start_date, end_date) == FALSE

\* line 245
RangeInverted(start_date, end_date) == ~DateLE(start_date, end_date)

AddResultFirst(results, entry) == << entry >> \o results

\* results_data.append(...)
AddResult(results, entry) == Append(results, entry)

\* lines 288-303: results_data after the provider returned for `pair`
ResultsAfterReturn(results, pair, cheapestOnly, outcome) ==
    IF HasFlights(outcome) /\ ~PairEntryRaises(cheapestOnly, outcome)
    THEN AddResult(results, PairEntry(pair, cheapestOnly, outcome))
    ELSE results

ErrorsAfterReturnAlways(messages, pair, cheapestOnly, outcome) ==
    IF HasFlights(outcome) THEN AppendError(messages, ErrMsg(pair, TypeErr)) ELSE messages

\* lines 292 and 305-309: error_messages after the provider returned for
\* `pair`; the TypeError of min() is caught like any other exception
ErrorsAfterReturn(messages, pair, cheapestOnly, outcome) ==
    IF HasFlights(outcome) /\ PairEntryRaises(cheapestOnly, outcome)
    THEN AppendError(messages, ErrMsg(pair, TypeErr))
    ELSE messages

\* The dates and stay bounds a call may be given.
BaseDate == Date(2026, 2, 27)

RECURSIVE AddDays(_, _)
AddDays(dt, k) == IF k = 0 THEN dt ELSE AddDays(AddOneDay(dt), k - 1)

ValidTexts ==
    { Strftime(AddDays(BaseDate, k)) : k \in 0..MaxSpan }
        \cup { UnpaddedText(BaseDate.year, BaseDate.month, BaseDate.day) }

InvalidTexts == { DateText(2026, 2, 30), DateText(2026, 13, 1), GarbageText }

DateTexts == ValidTexts \cup InvalidTexts

StayOpts == { None } \cup { Some(k) : k \in 0..MaxSpan }

SweepIdle ==
    /\ pc = "idle"
    /\ start_date_str = GarbageText
    /\ end_date_str = GarbageText
    /\ min_stay_days = None
    /\ max_stay_days = None
    /\ return_cheapest_only = FALSE
    /\ date_pairs_to_check = << >>
    /\ count = 0
    /\ results_data = << >>
    /\ error_messages = << >>
    /\ report = NoReport
    /\ calls = << >>
    /\ outcomes = << >>

\* lines 233-270: the call up to the head of the loop
Enter(startStr, endStr, minStay, maxStay, cheapestOnly) ==
    /\ pc = "idle"
    /\ start_date_str' = startStr
    /\ end_date_str' = endStr
    /\ min_stay_days' = minStay
    /\ max_stay_days' = maxStay
    /\ return_cheapest_only' = cheapestOnly
    /\ results_data' = << >>
    /\ error_messages' = << >>
    /\ IF ParseFails(startStr, endStr)
       THEN /\ report' = InvalidDateFormat
            /\ pc' = "done"
            /\ UNCHANGED << date_pairs_to_check, count >>
       ELSE IF RangeInverted(Strptime(startStr), Strptime(endStr))
       THEN /\ report' = StartAfterEnd
            /\ pc' = "done"
            /\ UNCHANGED << date_pairs_to_check, count >>
       ELSE IF DateList(Strptime(startStr), Strptime(endStr)) = << >>
       THEN /\ report' = NoValidDates
            /\ pc' = "done"
            /\ UNCHANGED << date_pairs_to_check, count >>
       ELSE /\ date_pairs_to_check' =
                 DatePairs(Strptime(startStr), Strptime(endStr), minStay, maxStay)
            /\ count' = 1
            /\ pc' = "loop"
            /\ UNCHANGED report
    /\ UNCHANGED << calls, outcomes, toolVars, seatVars, concVars >>

\* The number of pairs a call with these arguments sweeps (0 when rejected).
PairCount(startStr, endStr, minStay, maxStay) ==
    IF ParseFails(startStr, endStr) THEN 0
    ELSE Len(DatePairs(Strptime(startStr), Strptime(endStr), minStay, maxStay))

Invoke ==
    /\ pc = "idle"
    /\ \E startStr \in DateTexts, endStr \in DateTexts,
          minStay \in StayOpts, maxStay \in StayOpts, cheapestOnly \in BOOLEAN :
           /\ PairCount(startStr, endStr, minStay, maxStay) <= MaxPairs
           /\ Enter(startStr, endStr, minStay, maxStay, cheapestOnly)

\* lines 272-286: the next pair's query goes to the provider
CallProvider ==
    /\ pc = "loop"
    /\ count <= Len(date_pairs_to_check)
    /\ calls' = Append(calls, Query(date_pairs_to_check[count]))
    /\ pc' = "in_flight"
    /\ UNCHANGED << start_date_str, end_date_str, min_stay_days, max_stay_days,
                    return_cheapest_only, date_pairs_to_check, count, results_data,
                    error_messages, report, outcomes, toolVars, seatVars, concVars >>

\* lines 305-309: the provider raised
ProviderRaises ==
    \E e \in SweepExcs :
        /\ pc = "in_flight"
        /\ outcomes' = Append(outcomes, Raised(e))
        /\ error_messages' =
               AppendError(error_messages, ErrMsg(date_pairs_to_check[count], e))
        /\ count' = count + 1
        /\ pc' = "loop"
        /\ UNCHANGED << start_date_str, end_date_str, min_stay_days, max_stay_days,
                        return_cheapest_only, date_pairs_to_check, results_data,
                        report, calls, toolVars, seatVars, concVars >>

\* lines 288-309: the provider returned
ProviderReturns ==
    \E o \in ReturnOutcomes :
        /\ pc = "in_flight"
        /\ outcomes' = Append(outcomes, o)
        /\ results_data' = ResultsAfterReturn(results_data, date_pairs_to_check[count],
                                              return_cheapest_only, o)
        /\ error_messages' = ErrorsAfterReturn(error_messages, date_pairs_to_check[count],
                                               return_cheapest_only, o)
        /\ count' = count + 1
        /\ pc' = "loop"
        /\ UNCHANGED << start_date_str, end_date_str, min_stay_days, max_stay_days,
                        return_cheapest_only, date_pairs_to_check, report, calls,
                        toolVars, seatVars, concVars >>

\* lines 311-331: the loop is over, the report is returned
Finish ==
    /\ pc = "loop"
    /\ count > Len(date_pairs_to_check)
    /\ report' = RangeReport(start_date_str, end_date_str, min_stay_days, max_stay_days,
                             return_cheapest_only, results_data, error_messages)
    /\ pc' = "done"
    /\ UNCHANGED << start_date_str, end_date_str, min_stay_days, max_stay_days,
                    return_cheapest_only, date_pairs_to_check, count, results_data,
                    error_messages, calls, outcomes, toolVars, seatVars, concVars >>

Invocations == 1..NumInvocations

\* The arguments of an invocation
Args(startStr, endStr, minStay, maxStay, cheapestOnly) ==
    [start_date_str |-> startStr, end_date_str |-> endStr, min_stay_days |-> minStay,
     max_stay_days |-> maxStay, return_cheapest_only |-> cheapestOnly]

\* An invocation that has not been called yet
IdleFrame ==
    [pc |-> "idle", args |-> Args(GarbageText, GarbageText, None, None, FALSE),
     date_pairs_to_check |-> << >>, count |-> 0, report |-> NoReport,
     calls |-> << >>, outcomes |-> << >>]

\* lines 236-237: the two lists of an invocation, empty
FreshLists == [results_data |-> << >>, error_messages |-> << >>]

ConcIdle ==
    /\ frames = [a \in Invocations |-> IdleFrame]
    /\ lists = [a \in Invocations |-> FreshLists]
    /\ in_flight = { }

ToolIdle == tool = "none" /\ tool_dates = << >>

SeatIdle == seat_type = << >> /\ seat = NullList

Init == SweepIdle /\ ToolIdle /\ SeatIdle /\ ConcIdle

Next == Invoke \/ CallProvider \/ ProviderRaises \/ ProviderReturns \/ Finish

\* find_all_flights_in_range against a provider free to fail or answer
Spec == Init /\ [][Next]_vars

\* The expansion alone, on every window of up to MaxSpan + 1 days.
Expand ==
    /\ pc = "idle"
    /\ \E startStr \in DateTexts, endStr \in DateTexts,
          minStay \in StayOpts, maxStay \in StayOpts, cheapestOnly \in BOOLEAN :
           Enter(startStr, endStr, minStay, maxStay, cheapestOnly)

SpecExpand == Init /\ [][Expand]_vars

\* ---------------------------------------------------------------------------
\* Several invocations of find_all_flights_in_range side by side.  The hosting
\* runtime may switch between invocations whenever one of them is waiting for
\* the provider, so the steps of the invocations interleave at the provider
\* calls.  Everything an invocation assigns is a local of its own call.
\* ---------------------------------------------------------------------------

LocalsShared(a) == 1

\* lines 236-237: `results_data = []` and `error_messages = []` bind fresh
\* lists in the frame of the call, so invocation a works on lists of its own
LocalsOf(a) == a

\* lines 233-270 for one invocation: its frame at the head of the loop, or
\* holding the validation report it returned
EnterFrame(g) ==
    IF ParseFails(g.start_date_str, g.end_date_str)
    THEN [IdleFrame EXCEPT !.pc = "done", !.args = g, !.report = InvalidDateFormat]
    ELSE IF RangeInverted(Strptime(g.start_date_str), Strptime(g.end_date_str))
    THEN [IdleFrame EXCEPT !.pc = "done", !.args = g, !.report = StartAfterEnd]
    ELSE IF DateList(Strptime(g.start_date_str), Strptime(g.end_date_str)) = << >>
    THEN [IdleFrame EXCEPT !.pc = "done", !.args = g, !.report = NoValidDates]
    ELSE [IdleFrame EXCEPT !.pc = "loop", !.args = g, !.count = 1,
                           !.date_pairs_to_check =
                               DatePairs(Strptime(g.start_date_str),
                                         Strptime(g.end_date_str),
                                         g.min_stay_days, g.max_stay_days)]

\* The windows the concurrent invocations are given: one day, two same-day
\* trips, one overnight trip, and an inverted range.
ConcWindows ==
    LET day(k) == Strftime(AddDays(BaseDate, k))
    IN  { << day(0), day(0), None, None >>,
          << day(0), day(1), None, Some(0) >>,
          << day(1), day(2), Some(1), None >>,
          << day(1), day(0), None, None >> }

ConcArgs ==
    { Args(w[1], w[2], w[3], w[4], cheapestOnly) :
          w \in ConcWindows, cheapestOnly \in BOOLEAN }

\* What the provider does to a call of a concurrent invocation
ConcExcs == { RuntimeErr }

ConcReturns == { Returned(<< Some(2), Some(1), Some(1) >>), Returned(<< None, None >>) }

\* line 233: invocation a is called
ConcInvoke(a) ==
    /\ frames[a].pc = "idle"
    /\ \E g \in ConcArgs :
           frames' = [frames EXCEPT ![a] = EnterFrame(g)]
    /\ lists' = [lists EXCEPT ![LocalsOf(a)] = FreshLists]
    /\ UNCHANGED << in_flight, sweepVars, toolVars, seatVars >>

\* lines 272-286: invocation a sends the query of its next pair
ConcCallProvider(a) ==
    /\ frames[a].pc = "loop"
    /\ frames[a].count <= Len(frames[a].date_pairs_to_check)
    /\ frames' = [frames EXCEPT
                      ![a].calls = Append(@, Query(frames[a].date_pairs_to_check[
                                                       frames[a].count])),
                      ![a].pc = "in_flight"]
    /\ in_flight' = in_flight \cup { << a, frames[a].count >> }
    /\ UNCHANGED << lists, sweepVars, toolVars, seatVars >>

\* lines 305-309: the provider raised on the call of invocation a
ConcProviderRaises(a) ==
    \E e \in ConcExcs :
        /\ frames[a].pc = "in_flight"
        /\ << a, frames[a].count >> \in in_flight
        /\ lists' = [lists EXCEPT ![LocalsOf(a)].error_messages =
                         AppendError(@, ErrMsg(frames[a].date_pairs_to_check[
                                                   frames[a].count], e))]
        /\ frames' = [frames EXCEPT ![a].outcomes = Append(@, Raised(e)),
                                    ![a].count = @ + 1,
                                    ![a].pc = "loop"]
        /\ in_flight' = in_flight \ { << a, frames[a].count >> }
        /\ UNCHANGED << sweepVars, toolVars, seatVars >>

\* lines 288-309: the provider returned on the call of invocation a
ConcProviderReturns(a) ==
    \E o \in ConcReturns :
        /\ frames[a].pc = "in_flight"
        /\ << a, frames[a].count >> \in in_flight
        /\ lists' = [lists EXCEPT
                         ![LocalsOf(a)] =
                             [results_data |->
                                  ResultsAfterReturn(@.results_data,
                                      frames[a].date_pairs_to_check[frames[a].count],
                                      frames[a].args.return_cheapest_only, o),
                              error_messages |->
                                  ErrorsAfterReturn(@.error_messages,
                                      frames[a].date_pairs_to_check[frames[a].count],
                                      frames[a].args.return_cheapest_only, o)]]
        /\ frames' = [frames EXCEPT ![a].outcomes = Append(@, o),
                                    ![a].count = @ + 1,
                                    ![a].pc = "loop"]
        /\ in_flight' = in_flight \ { << a, frames[a].count >> }
        /\ UNCHANGED << sweepVars, toolVars, seatVars >>

\* lines 311-331: the loop of invocation a is over, its report is returned
ConcFinish(a) ==
    /\ frames[a].pc = "loop"
    /\ frames[a].count > Len(frames[a].date_pairs_to_check)
    /\ frames' = [frames EXCEPT
                      ![a].report =
                          RangeReport(frames[a].args.start_date_str,
                                      frames[a].args.end_date_str,
                                      frames[a].args.min_stay_days,
                                      frames[a].args.max_stay_days,
                                      frames[a].args.return_cheapest_only,
                                      lists[LocalsOf(a)].results_data,
                                      lists[LocalsOf(a)].error_messages),
                      ![a].pc = "done"]
    /\ UNCHANGED << lists, in_flight, sweepVars, toolVars, seatVars >>

ConcNext ==
    \E a \in Invocations :
        \/ ConcInvoke(a)
        \/ ConcCallProvider(a)
        \/ ConcProviderRaises(a)
        \/ ConcProviderReturns(a)
        \/ ConcFinish(a)

SpecConc == Init /\ [][ConcNext]_vars

----------------------------------------------------------------------------
(* get_flights_on_date and get_round_trip_flights.                         *)

\* json.dumps({"error": {"message": ..., "type": ...}}); `about` is the date
\* string the message quotes, if it quotes one.
ToolError(message, type, about) ==
    [kind |-> "error", message |-> message, type |-> type, about |-> about]

\* lines 123 and 200
InvalidDateReport(t, dates) ==
    IF t = "get_flights_on_date"
    THEN ToolError("Invalid date format: '{date}'. Please use YYYY-MM-DD.",
                   "ValueError", << dates[1] >>)
    ELSE ToolError("Invalid date format. Use YYYY-MM-DD.", "ValueError", << >>)

\* lines 124-126 and 201-203
SurfacedError(e) == ToolError(e.message, e.name, << >>)

\* lines 95, 120, 171, 197
NoFlightsMessage(t) ==
    [kind |-> "message",
     message |-> IF t = "get_flights_on_date" THEN "No flights found for {origin} -> {destination} on {date}."
                 ELSE "No round trip flights found for {origin} <-> {destination}."]

\* lines 97-118 and 173-195
ToolReport(t, dates, cheapestOnly, flights_list) ==
    [kind |-> "report",
     search_parameters |-> [dates |-> dates, return_cheapest_only |-> cheapestOnly],
     results_key |->
        IF t = "get_flights_on_date"
        THEN (IF cheapestOnly THEN "cheapest_flight" ELSE "flights")
        ELSE (IF cheapestOnly THEN "cheapest_round_trip_option" ELSE "round_trip_options"),
     results |->
        IF cheapestOnly THEN << FlightsToDict(MinByPrice(flights_list).value) >>
        ELSE [i \in 1..Len(flights_list) |-> FlightsToDict(flights_list[i])]]

\* The exception handlers of lines 122-126 and 199-203: ValueError and its
\* subclasses are taken by the first, whatever raised them.
Handled(t, dates, e) ==
    IF e.value_error THEN InvalidDateReport(t, dates) ELSE SurfacedError(e)

\* The date arguments a tool is given.
ToolDateArgs(t) ==
    IF t = "get_flights_on_date" THEN { << d >> : d \in DateTexts }
    ELSE { << d, r >> : d \in DateTexts, r \in DateTexts }

\* The query of lines 84-89 and 157-165, by its dates (passed on as given).
ToolQuery(dates) == [depart |-> dates[1], return |-> dates[Len(dates)]]

\* lines 80-90 and 152-166: the dates are parsed, then the provider is called
ToolInvoke ==
    /\ pc = "idle"
    /\ tool = "none"
    /\ \E t \in { "get_flights_on_date", "get_round_trip_flights" }, cheapestOnly \in BOOLEAN :
         \E dates \in ToolDateArgs(t) :
            /\ tool' = t
            /\ tool_dates' = dates
            /\ return_cheapest_only' = cheapestOnly
            /\ IF \E i \in 1..Len(dates) : StrptimeRaises(dates[i])
               THEN /\ report' = InvalidDateReport(t, dates)
                    /\ pc' = "done"
                    /\ UNCHANGED calls
               ELSE /\ calls' = << ToolQuery(dates) >>
                    /\ pc' = "in_flight"
                    /\ UNCHANGED report
    /\ UNCHANGED << start_date_str, end_date_str, min_stay_days, max_stay_days,
                    date_pairs_to_check, count, results_data, error_messages,
                    outcomes, seatVars, concVars >>

\* the provider raised: lines 122-126 and 199-203
ToolProviderRaises ==
    /\ pc = "in_flight"
    /\ tool # "none"
    /\ \E e \in ToolExcs :
        /\ outcomes' = << Raised(e) >>
        /\ report' = Handled(tool, tool_dates, e)
    /\ pc' = "done"
    /\ UNCHANGED << start_date_str, end_date_str, min_stay_days, max_stay_days,
                    return_cheapest_only, date_pairs_to_check, count, results_data,
                    error_messages, calls, toolVars, seatVars, concVars >>

\* the provider returned: lines 92-120 and 168-197
ToolProviderReturns ==
    /\ pc = "in_flight"
    /\ tool # "none"
    /\ \E o \in ReturnOutcomes :
        /\ outcomes' = << o >>
        /\ report' =
             IF ~HasFlights(o) THEN NoFlightsMessage(tool)
             ELSE IF PairEntryRaises(return_cheapest_only, o)
                  THEN Handled(tool, tool_dates, TypeErr)
             ELSE ToolReport(tool, tool_dates, return_cheapest_only, o.flights)
    /\ pc' = "done"
    /\ UNCHANGED << start_date_str, end_date_str, min_stay_days, max_stay_days,
                    return_cheapest_only, date_pairs_to_check, count, results_data,
                    error_messages, calls, toolVars, seatVars, concVars >>

ToolNext == ToolInvoke \/ ToolProviderRaises \/ ToolProviderReturns

\* One call of get_flights_on_date or get_round_trip_flights
SpecTools == Init /\ [][ToolNext]_vars

----------------------------------------------------------------------------
(* map_seat_type.  A string is the sequence of its characters.             *)

LowerCase == << "a", "b", "c", "d", "e", "f", "g", "h", "i", "j", "k", "l", "m",
                "n", "o", "p", "q", "r", "s", "t", "u", "v", "w", "x", "y", "z" >>

UpperCase == << "A", "B", "C", "D", "E", "F", "G", "H", "I", "J", "K", "L", "M",
                "N", "O", "P", "Q", "R", "S", "T", "U", "V", "W", "X", "Y", "Z" >>

\* str.lower(), character by character: only upper-case letters change
LowerChar(c) ==
    IF \E i \in 1..Len(UpperCase) : UpperCase[i] = c
    THEN LowerCase[CHOOSE i \in 1..Len(UpperCase) : UpperCase[i] = c]
    ELSE c

Lower(str) == [i \in 1..Len(str) |-> LowerChar(str[i])]

Economy == << "e", "c", "o", "n", "o", "m", "y" >>

Business == << "b", "u", "s", "i", "n", "e", "s", "s" >>

First == << "f", "i", "r", "s", "t" >>

Premium == << "p", "r", "e", "m", "i", "u", "m" >>

PremiumDashEconomy == Premium \o << "-" >> \o Economy

PremiumUnderscoreEconomy == Premium \o << "_" >> \o Economy

\* lines 48-55: the keys of `mapping`, and the value of a key
MappingKeys ==
    { Economy, Business, First, Premium, PremiumDashEconomy, PremiumUnderscoreEconomy }

MappingValue(key) ==
    IF key = Economy THEN Economy
    ELSE IF key = Business THEN Business
    ELSE IF key = First THEN First
    ELSE PremiumDashEconomy

\* dict.get(key, default)
MappingGet(key, default) == IF key \in MappingKeys THEN MappingValue(key) ELSE default

map_seat_type_case_sensitive(str) == MappingGet(str, Economy)

\* line 56
map_seat_type(str) == MappingGet(Lower(str), Economy)

\* The seat types tried: the keys and a few other words, with up to MaxUpper
\* of their letters in upper case, or all of them.
UpperChar(c) ==
    IF \E i \in 1..Len(LowerCase) : LowerCase[i] = c
    THEN UpperCase[CHOOSE i \in 1..Len(LowerCase) : LowerCase[i] = c]
    ELSE c

WithUpper(str, positions) ==
    [i \in 1..Len(str) |-> IF i \in positions THEN UpperChar(str[i]) ELSE str[i]]

SeatWords ==
    MappingKeys \cup
        { << >>, << "d", "e", "l", "u", "x", "e" >>, Premium \o << " " >> \o Economy,
          Economy \o << "y" >>, << "e", "c", "o", "n" >>, << "1", "s", "t" >> }

SeatInputs ==
    { WithUpper(w[1], w[2]) :
        w \in { x \in SeatWords \X SUBSET (1..15) :
                  /\ x[2] \subseteq 1..Len(x[1])
                  /\ Cardinality(x[2]) <= MaxUpper \/ x[2] = 1..Len(x[1]) } }

\* One call of map_seat_type
MapSeat ==
    /\ ~seat.some
    /\ \E str \in SeatInputs :
        /\ seat_type' = str
        /\ seat' = Some(map_seat_type(str))
    /\ UNCHANGED << sweepVars, toolVars, concVars >>

SpecSeat == Init /\ [][MapSeat]_vars

----------------------------------------------------------------------------
(* Vocabulary of the properties.                                           *)

\* a is an earlier day than b, read off the two date strings
TextLT(a, b) ==
    \/ a.y < b.y
    \/ a.y = b.y /\ a.m < b.m
    \/ a.y = b.y /\ a.m = b.m /\ a.d < b.d

TextLE(a, b) == ~TextLT(b, a)

\* Both date strings parse and start <= end.
ValidRange ==
    /\ ~StrptimeRaises(start_date_str)
    /\ ~StrptimeRaises(end_date_str)
    /\ TextLE(start_date_str, end_date_str)

\* The label of the i-th pair of the expansion, as the report prints it.
PairLabel(i) ==
    << Strftime(date_pairs_to_check[i][1]), Strftime(date_pairs_to_check[i][2]) >>

EntryLabel(entry) == << entry.departure_date, entry.return_date >>

ErrorLabel(msg) == << msg.departure, msg.return >>

\* (departure, return) order on labels
LabelLT(a, b) == TextLT(a[1], b[1]) \/ (a[1] = b[1] /\ TextLT(a[2], b[2]))

Finished == pc = "done" /\ report.kind = "report"

\* The provider answered the i-th call with at least one offer.
GotOffers(i) == i <= Len(outcomes) /\ HasFlights(outcomes[i])

Priced(flights) == { i \in 1..Len(flights) : flights[i].price # None }

\* The first offer among those of least known price.
FirstCheapest(flights) ==
    LET least == CHOOSE i \in Priced(flights) :
                     \A k \in Priced(flights) :
                         \/ flights[i].price.val < flights[k].price.val
                         \/ flights[i].price.val = flights[k].price.val /\ i <= k
    IN  flights[least]

ErrorCount(r) == IF r.errors_encountered.some THEN Len(r.errors_encountered.val) ELSE 0

----------------------------------------------------------------------------
(* Properties of find_all_flights_in_range.                                *)

\* C1 (part): while a sweep runs, the provider has been called once for each
\* pair processed so far, in the order of the expansion, whatever the
\* provider answered; a finished sweep has called it for every pair.
SweepCallsEveryPairOnce ==
    /\ Len(calls) <= Len(date_pairs_to_check)
    /\ \A i \in 1..Len(calls) : calls[i] = Query(date_pairs_to_check[i])
    /\ pc = "in_flight" => Len(calls) = count
    /\ pc = "loop" => Len(calls) = count - 1
    /\ (pc = "done" /\ ValidRange) =>
           report.kind = "report" /\ Len(calls) = Len(date_pairs_to_check)

\* C1: with valid dates, provider failures never abort the sweep: the
\* provider is called exactly once per pair of the expansion, in expansion
\* order, and the call returns the final report, which holds a result entry
\* for every pair whose provider call succeeded with offers.
C1_SweepSurvivesFailures ==
    (pc = "done" /\ ValidRange) =>
        /\ report.kind = "report"
        /\ calls = [i \in 1..Len(date_pairs_to_check) |-> Query(date_pairs_to_check[i])]
        /\ \A i \in 1..Len(date_pairs_to_check) :
               GotOffers(i) =>
                   \E j \in 1..Len(report.results) :
                       EntryLabel(report.results[j]) = PairLabel(i)

\* Every pair of a finished sweep failed, with one and the same error kind.
AllFailedAlike(e) ==
    /\ Finished
    /\ Len(outcomes) = Len(date_pairs_to_check)
    /\ \A i \in 1..Len(outcomes) : outcomes[i] = Raised(e)

\* C2 as stated: a sweep in which every pair fails with the same error kind
\* returns exactly one error entry and no offer entry.
C2_OneErrorEntry ==
    \A e \in SweepExcs :
        (AllFailedAlike(e) /\ Len(date_pairs_to_check) >= 1) =>
            ErrorCount(report) = 1 /\ report.results = << >>

\* C2 amended: a sweep in which every pair fails with the same error kind
\* returns one error entry per pair, each naming its pair and the kind, in
\* pair order, and no offer entry.
C2_OneErrorEntryPerPair ==
    \A e \in SweepExcs :
        AllFailedAlike(e) =>
            /\ ErrorCount(report) = Len(date_pairs_to_check)
            /\ \A i \in 1..ErrorCount(report) :
                   /\ ErrorLabel(report.errors_encountered.val[i]) = PairLabel(i)
                   /\ report.errors_encountered.val[i].type = e.name
            /\ report.results = << >>

C2_Witness ==
    /\ AllFailedAlike(RuntimeErr)
    /\ Len(date_pairs_to_check) = 3
    /\ ErrorCount(report) = 3

\* The i-th pair was answered with offers none of which has a known price.
Unpriced(i) == GotOffers(i) /\ Priced(outcomes[i].flights) = { }

\* C3: cheapest-only reduction of a non-empty offer set without any known
\* price is a no-op: the pair's entry holds the original offers unchanged,
\* and no error is recorded for the pair.
C3_UnpricedReductionIsNoOp ==
    (Finished /\ return_cheapest_only) =>
        \A i \in 1..Len(date_pairs_to_check) :
            Unpriced(i) =>
                /\ \E j \in 1..Len(report.results) :
                       /\ EntryLabel(report.results[j]) = PairLabel(i)
                       /\ report.results[j].flights =
                              [k \in 1..Len(outcomes[i].flights) |->
                                   FlightsToDict(outcomes[i].flights[k])]
                /\ \A j \in 1..ErrorCount(report) :
                       ErrorLabel(report.errors_encountered.val[j]) # PairLabel(i)

\* C4: cheapest-only reduction of an offer set with at least one known price
\* drops the offers without a price and returns exactly one offer, the first
\* of those whose price is the least known price.
C4_CheapestOfPriced ==
    (Finished /\ return_cheapest_only) =>
        \A i \in 1..Len(date_pairs_to_check) :
            (GotOffers(i) /\ Priced(outcomes[i].flights) # { }) =>
                \E j \in 1..Len(report.results) :
                    /\ EntryLabel(report.results[j]) = PairLabel(i)
                    /\ report.results[j].flights =
                           << FlightsToDict(FirstCheapest(outcomes[i].flights)) >>

\* C4 (part): on an offer set in which every offer has a known price, the
\* reduction returns exactly one offer, the first of least price.
CheapestOfAllPriced ==
    (Finished /\ return_cheapest_only) =>
        \A i \in 1..Len(date_pairs_to_check) :
            (GotOffers(i) /\ Priced(outcomes[i].flights) = DOMAIN outcomes[i].flights) =>
                \E j \in 1..Len(report.results) :
                    /\ EntryLabel(report.results[j]) = PairLabel(i)
                    /\ report.results[j].flights =
                           << FlightsToDict(FirstCheapest(outcomes[i].flights)) >>

\* The days of the calendar the windows are taken from.
CalendarDays ==
    { Date(2026, m, d) : m \in 2..3, d \in 1..31 } \ { Date(2026, 2, d) : d \in 29..31 }

CalendarLabels == { DateText(dt.year, dt.month, dt.day) : dt \in CalendarDays }

\* The number of a day of February or March 2026, counted from February 1st.
DayNumber(t) == IF t.m = 2 THEN t.d ELSE 28 + t.d

\* Whole days from the day a spells to the day b spells.
DaysApart(a, b) == DayNumber(b) - DayNumber(a)

\* The pairs the expansion is to yield, as a set of labels.
WantedPairs ==
    { p \in CalendarLabels \X CalendarLabels :
        /\ TextLE(start_date_str, p[1])
        /\ TextLE(p[1], p[2])
        /\ TextLE(p[2], end_date_str)
        /\ (min_stay_days # None => DaysApart(p[1], p[2]) >= min_stay_days.val)
        /\ (max_stay_days # None => DaysApart(p[1], p[2]) <= max_stay_days.val) }

\* C5: for start <= end the expansion yields exactly the pairs (d, r) with
\* start <= d <= r <= end whose stay r - d meets the stay bounds that are
\* present, each exactly once; without stay bounds there are n*(n+1)/2 of
\* them, n being the number of days of the window.
C5_ExpansionIsExact ==
    (pc # "idle" /\ ValidRange) =>
        /\ pc = "loop"
        /\ { PairLabel(i) : i \in 1..Len(date_pairs_to_check) } = WantedPairs
        /\ \A i, j \in 1..Len(date_pairs_to_check) :
               i # j => date_pairs_to_check[i] # date_pairs_to_check[j]
        /\ (min_stay_days = None /\ max_stay_days = None) =>
               LET n == DaysApart(start_date_str, end_date_str) + 1
               IN  2 * Len(date_pairs_to_check) = n * (n + 1)

C5_Witness ==
    /\ pc = "loop"
    /\ start_date_str = DateText(2026, 2, 27)
    /\ end_date_str = DateText(2026, 3, 1)
    /\ min_stay_days = Some(1)
    /\ max_stay_days = Some(2)
    /\ Len(date_pairs_to_check) = 3
    /\ PairLabel(3) = << DateText(2026, 2, 28), DateText(2026, 3, 1) >>

\* C6: the pairs are produced by ascending departure date, then ascending
\* return date, and the result entries of the sweep, and of its final
\* report, name pairs of the expansion in that same order, whatever the
\* provider answered for the other pairs.
C6_OrderPreserved ==
    /\ \A i, j \in 1..Len(date_pairs_to_check) :
           i < j => LabelLT(PairLabel(i), PairLabel(j))
    /\ \A i, j \in 1..Len(results_data) :
           i < j => LabelLT(EntryLabel(results_data[i]), EntryLabel(results_data[j]))
    /\ \A j \in 1..Len(results_data) :
           \E i \in 1..Len(outcomes) :
               GotOffers(i) /\ EntryLabel(results_data[j]) = PairLabel(i)
    /\ Finished => report.results = results_data

C6_Witness ==
    /\ Finished
    /\ Len(outcomes) = 3
    /\ GotOffers(1)
    /\ outcomes[2].kind = "raise"
    /\ GotOffers(3)
    /\ Len(report.results) = 2
    /\ EntryLabel(report.results[2]) = PairLabel(3)

\* What a sweep that searched pairs and found no flight returns, the echo of
\* the search parameters left aside.
ZeroFlightsBody(r) ==
    r.kind = "report" /\ r.results = << >> /\ r.errors_encountered = NullList

\* C7: when the expansion yields no pair, no provider call is made and the
\* report returned signals "no valid date combinations", unlike the report
\* of a sweep that searched pairs and found no flights.
C7_NoPairsIsSignalled ==
    (pc = "done" /\ ValidRange /\ date_pairs_to_check = << >>) =>
        calls = << >> /\ ~ZeroFlightsBody(report)

\* C7 (part): the negation of "some sweep searched a pair, found nothing and
\* returned the zero-flights body"; TLC refutes it, so such a sweep exists.
NoSearchedEmptySweep == ~(Finished /\ calls # << >> /\ ZeroFlightsBody(report))

\* C8: an unparsable start or end date, or start > end, makes the call
\* return the validation error report with no provider call made: a provider
\* call, or the loop itself, is reached only with both dates parsed and
\* start <= end.
C8_ValidationBeforeProvider ==
    /\ (calls # << >> \/ pc \in { "loop", "in_flight" }) => ValidRange
    /\ (pc # "idle" /\ ~ValidRange) =>
           /\ pc = "done"
           /\ calls = << >>
           /\ report = IF StrptimeRaises(start_date_str) \/ StrptimeRaises(end_date_str)
                       THEN InvalidDateFormat ELSE StartAfterEnd

C8_Witness ==
    /\ pc = "done"
    /\ start_date_str = DateText(2026, 2, 28)
    /\ end_date_str = DateText(2026, 2, 27)
    /\ report = StartAfterEnd
    /\ calls = << >>

----------------------------------------------------------------------------
(* Properties of get_flights_on_date and get_round_trip_flights.           *)

ToolDone == pc = "done" /\ tool # "none"

AllDatesParse == \A i \in 1..Len(tool_dates) : ~StrptimeRaises(tool_dates[i])

\* C9: the single-query tools report an invalid date format only when a date
\* string is unparsable; with valid date strings and a failing provider call
\* the error report carries the provider's own exception kind and message,
\* whatever the kind.
C9_ProviderErrorSurfaced ==
    ToolDone =>
        /\ report = InvalidDateReport(tool, tool_dates) => ~AllDatesParse
        /\ \A e \in ToolExcs :
               (AllDatesParse /\ outcomes = << Raised(e) >>) =>
                   /\ report.kind = "error"
                   /\ report.type = e.name
                   /\ report.message = e.message

\* C9 (part): a provider exception that is no ValueError is surfaced with its
\* own kind and message.
OtherErrorsSurfaced ==
    ToolDone =>
        \A e \in ToolExcs :
            (~e.value_error /\ AllDatesParse /\ outcomes = << Raised(e) >>) =>
                report = SurfacedError(e)

----------------------------------------------------------------------------
(* Properties of map_seat_type.                                            *)

\* str spells the lower-case word `word`, letter case ignored.
SpellsIgnoringCase(str, word) ==
    /\ Len(str) = Len(word)
    /\ \A i \in 1..Len(str) : str[i] = word[i] \/ str[i] = UpperChar(word[i])

\* C10: cabin normalization is total and case-insensitive: economy, business
\* and first map to themselves, premium, premium-economy and premium_economy
\* map to premium-economy, every other string, the empty one included, maps
\* to economy.
C10_SeatNormalization ==
    /\ ~seat.some => ENABLED MapSeat
    /\ seat.some =>
        seat.val =
            IF SpellsIgnoringCase(seat_type, Business) THEN Business
            ELSE IF SpellsIgnoringCase(seat_type, First) THEN First
            ELSE IF \/ SpellsIgnoringCase(seat_type, Premium)
                    \/ SpellsIgnoringCase(seat_type, PremiumDashEconomy)
                    \/ SpellsIgnoringCase(seat_type, PremiumUnderscoreEconomy)
                 THEN PremiumDashEconomy
            ELSE Economy

C10_Witness ==
    /\ seat_type = << "P", "R", "E", "M", "I", "U", "M", "_",
                      "E", "C", "O", "N", "O", "M", "Y" >>
    /\ seat = Some(PremiumDashEconomy)

----------------------------------------------------------------------------
(* Further properties of find_all_flights_in_range.                        *)

\* The provider answered the i-th call with an empty or absent result.
GotNothing(i) == i <= Len(outcomes) /\ outcomes[i].kind \in { "falsy", "empty_iter" }

\* The pair i has no result entry and no error entry in the report r.
NoEntryFor(i, r) ==
    /\ \A j \in 1..Len(r.results) : EntryLabel(r.results[j]) # PairLabel(i)
    /\ \A j \in 1..ErrorCount(r) : ErrorLabel(r.errors_encountered.val[j]) # PairLabel(i)

\* C11: a pair whose provider call succeeds with an empty or absent result
\* adds no result entry and no error entry to the report, yet is counted in
\* the total of pairs checked that the final report states.
C11_EmptyPairCountedInReport ==
    Finished =>
        \A i \in 1..Len(date_pairs_to_check) :
            GotNothing(i) =>
                /\ NoEntryFor(i, report)
                /\ "total_pairs_checked" \in DOMAIN report
                /\ report.total_pairs_checked = Len(date_pairs_to_check)

\* C11 (part): a pair answered with an empty or absent result leaves no
\* result entry and no error entry, and the loop counter has passed it.
EmptyPairLeavesNoEntry ==
    Finished =>
        /\ count = Len(date_pairs_to_check) + 1
        /\ \A i \in 1..Len(date_pairs_to_check) : GotNothing(i) => NoEntryFor(i, report)

\* C11 (part): the fields of the final report; none of them is a count.
ReportHasNoTotal ==
    Finished =>
        DOMAIN report = { "kind", "search_parameters", "results_key", "results",
                          "errors_encountered" }

\* C13: at every point of a sweep each pair processed so far has contributed
\* at most one entry to the result list and the error list together, never
\* one to each: their lengths sum to at most the number of pairs processed,
\* no pair is named in both, and no two error entries are equal.
C13_AtMostOneEntryPerPair ==
    /\ pc = "loop" => Len(outcomes) = count - 1
    /\ pc = "in_flight" => Len(outcomes) = count - 1
    /\ Len(results_data) + Len(error_messages) <= Len(outcomes)
    /\ \A i \in 1..Len(results_data) : \A j \in 1..Len(error_messages) :
           EntryLabel(results_data[i]) # ErrorLabel(error_messages[j])
    /\ \A i, j \in 1..Len(error_messages) :
           i # j => error_messages[i] # error_messages[j]

C13_Witness ==
    /\ pc = "in_flight"
    /\ count = 3
    /\ return_cheapest_only
    /\ Len(results_data) = 1
    /\ Len(error_messages) = 1
    /\ error_messages[1].type = "TypeError"

\* The provider calls of invocation a that have not been answered yet
CallsInFlight(a) == { c \in in_flight : c[1] = a }

\* What invocation a alone puts in its result list over its first n pairs
RECURSIVE OwnResults(_, _)
OwnResults(f, n) ==
    IF n = 0 THEN << >>
    ELSE IF f.outcomes[n].kind = "raise" THEN OwnResults(f, n - 1)
    ELSE ResultsAfterReturn(OwnResults(f, n - 1), f.date_pairs_to_check[n],
                            f.args.return_cheapest_only, f.outcomes[n])

\* What invocation a alone puts in its error list over its first n pairs
RECURSIVE OwnErrors(_, _)
OwnErrors(f, n) ==
    IF n = 0 THEN << >>
    ELSE IF f.outcomes[n].kind = "raise"
    THEN AppendError(OwnErrors(f, n - 1),
                     ErrMsg(f.date_pairs_to_check[n], f.outcomes[n].exc))
    ELSE ErrorsAfterReturn(OwnErrors(f, n - 1), f.date_pairs_to_check[n],
                           f.args.return_cheapest_only, f.outcomes[n])

\* C12: within one invocation at most one provider call is in flight at any
\* time, the call for pair k+1 starting only after the call for pair k has
\* returned or failed; and when invocations run concurrently, the report of
\* each holds exactly the result entries and error entries of its own pairs,
\* none of another invocation's.
C12_InvocationsAreIsolated ==
    \A a \in Invocations :
        LET f == frames[a]
        IN  /\ Cardinality(CallsInFlight(a)) <= 1
            /\ Len(f.calls) = Len(f.outcomes) + Cardinality(CallsInFlight(a))
            /\ \A c \in CallsInFlight(a) : c[2] = Len(f.outcomes) + 1
            /\ (f.pc = "done" /\ f.report.kind = "report") =>
                   /\ Len(f.outcomes) = Len(f.date_pairs_to_check)
                   /\ f.report.results = OwnResults(f, Len(f.outcomes))
                   /\ f.report.errors_encountered =
                          IF OwnErrors(f, Len(f.outcomes)) # << >>
                          THEN Some(OwnErrors(f, Len(f.outcomes)))
                          ELSE NullList

\* Two invocations over the same window are both waiting for the provider on
\* their second pair, the first having a result entry and the second an error
\* entry.
C12_Witness ==
    /\ frames[1].pc = "in_flight"
    /\ frames[2].pc = "in_flight"
    /\ frames[1].date_pairs_to_check = frames[2].date_pairs_to_check
    /\ frames[1].count = 2
    /\ frames[2].count = 2
    /\ frames[1].outcomes[1].kind = "offers"
    /\ frames[2].outcomes[1].kind = "raise"
    /\ Len(lists[1].results_data) = 1
    /\ Len(lists[2].error_messages) = 1

====
